---- MODULE Spec2Model ----
(***************************************************************************)
(* World Bank dashboard (src/app.py): the start-up pipeline                *)
(*   cache-or-fetch -> empty check -> metadata -> enrich -> aggregate      *)
(*   filter -> ffill/bfill -> GDP Category -> server                       *)
(* and the update_dashboard callback's time-trend selection.               *)
(*                                                                         *)
(* A nullable cell is a set: {} is NaN/None, {v} holds the value v.        *)
(* A table is [columns |-> <<indicator column names>>, rows |-> <<rows>>]; *)
(* a row carries its identifier columns as fields and its indicator cells  *)
(* in the function vals (column name -> cell).                             *)
(***************************************************************************)
EXTENDS Integers, Sequences, FiniteSets, TLC

VARIABLES
    pc,              \* position of the module-level script
    indicators,      \* argument of fetch_world_bank_data: <<[code, name]>>
    start_year,      \* argument of fetch_world_bank_data
    end_year,        \* argument of fetch_world_bank_data
    apiOrder,        \* order in which the API lists economies in a frame
    cacheExists,     \* os.path.exists(CACHE_FILE)
    cacheFile,       \* the table held by CACHE_FILE
    cacheWrites,     \* number of df.to_csv(CACHE_FILE) calls
    nRequests,       \* number of wb.data.DataFrame requests issued
    data_frames,     \* fetch_world_bank_data: the accumulator list
    idx,             \* fetch_world_bank_data: position in indicators.items()
    last,            \* responses the last loop iteration received
    received,        \* observations received in frames the loop accepted
    df,              \* module-level df
    meta,            \* valid_economies and the three lookup dicts
    df_countries,    \* module-level df_countries
    stdout,          \* module-level diagnostics printed so far
    exitStatus,      \* {} while running, {n} once the process has ended
    selection,       \* arguments of the last update_dashboard call
    df_top10         \* data of the time-trend chart it produced

vars == <<pc, indicators, start_year, end_year, apiOrder, cacheExists,
          cacheFile, cacheWrites, nRequests, data_frames, idx, last,
          received, df, meta, df_countries, stdout, exitStatus, selection,
          df_top10>>

-----------------------------------------------------------------------------
(* Bounds and program constants *)

NumIndicators == 2
NumYears == 2
NumDashEconomies == 11
MaxColumnLen == 3

StartYear == 2010
TopN == 10

NaN == {}
Val(v) == {v}
IsNull(c) == c = {}
Get(c) == CHOOSE v \in c : TRUE

INDICATORS ==
    << [code |-> "NY.GDP.PCAP.CD",    name |-> "GDP per Capita"],
       [code |-> "SP.POP.TOTL",       name |-> "Population"],
       [code |-> "SP.DYN.LE00.IN",    name |-> "Life Expectancy"],
       [code |-> "SE.XPD.TOTL.GD.ZS", name |-> "Education Expenditure (% GDP)"],
       [code |-> "SH.XPD.CHEX.GD.ZS", name |-> "Health Expenditure (% GDP)"],
       [code |-> "NY.GDP.MKTP.KD.ZG", name |-> "GDP Growth Rate"] >>

IndicatorName(code) ==
    INDICATORS[CHOOSE k \in 1..Len(INDICATORS) : INDICATORS[k].code = code].name

Min(a, b) == IF a <= b THEN a ELSE b

Range(s) == {s[k] : k \in 1..Len(s)}

RECURSIVE Flatten(_)
Flatten(ss) == IF ss = <<>> THEN <<>> ELSE Head(ss) \o Flatten(Tail(ss))

-----------------------------------------------------------------------------
(* The statistical API, as the program sees it *)

Economies == {"FRA", "USA"}

EconomyOrders == {<<"FRA", "USA">>, <<"USA", "FRA">>}

\* lexicographic rank of the economy codes of the model
CodeRank(e) ==
    CASE e = "ARG" -> 1  [] e = "BRA" -> 2  [] e = "CAN" -> 3
      [] e = "DEU" -> 4  [] e = "EGY" -> 5  [] e = "FRA" -> 6
      [] e = "GBR" -> 7  [] e = "IND" -> 8  [] e = "JPN" -> 9
      [] e = "KEN" -> 10 [] e = "MEX" -> 11 [] e = "NGA" -> 12
      [] e = "USA" -> 13 [] e = "ZAF" -> 14

\* the observation the API holds for (indicator, economy, year)
ApiValue(code, e, y) ==
    IF code = "NY.GDP.PCAP.CD"
    THEN CASE e = "USA" /\ y = 2010 -> Val(48000)
           [] e = "USA" /\ y = 2011 -> Val(50000)
           [] e = "FRA" /\ y = 2010 -> Val(40000)
           [] OTHER -> NaN
    ELSE Val(CodeRank(e) * 100 + (y - 2000))

\* labels=True adds the economy's label in a 'Country' column
ApiLabel(e) == IF e = "FRA" THEN "France" ELSE IF e = "USA" THEN "United States" ELSE e

ApiRegionCode(e) == IF e = "FRA" THEN "ECS" ELSE IF e = "USA" THEN "NAC" ELSE "LCN"

ApiRegionName(r) ==
    IF r = "ECS" THEN "Europe & Central Asia"
    ELSE IF r = "NAC" THEN "North America" ELSE "Latin America & Caribbean"

\* the economies a response may list: all of them, all but FRA, or none
Coverages == {Economies, Economies \ {"FRA"}, {}}

YearSeq(sy, ey) == [k \in 1..(ey - sy + 1) |-> sy + k - 1]

\* what one loop iteration can receive: the batch request succeeds with a
\* frame (with or without an 'economy' column), or raises, and then each
\* per-year request raises, succeeds, or succeeds without 'economy' column
Responses(sy, ey) ==
    {[batch |-> "ok", coverage |-> c, years |-> [y \in sy..ey |-> "unused"]] :
        c \in Coverages}
    \cup {[batch |-> "noeconomy", coverage |-> {}, years |-> [y \in sy..ey |-> "unused"]]}
    \cup {[batch |-> "error", coverage |-> c, years |-> f] :
            c \in Coverages, f \in [sy..ey -> {"error", "ok", "noeconomy"}]}

NoResponse == [batch |-> "none", coverage |-> {}, years |-> <<>>, tried |-> {}]

-----------------------------------------------------------------------------
(* Frames *)

EmptyFrame == [columns |-> <<>>, rows |-> <<>>]

\* DataFrame.empty: some axis has length 0 (every frame has id columns
\* except pd.DataFrame())
IsEmpty(t) == Len(t.rows) = 0

Keys(t) == {<<t.rows[k].economy, t.rows[k].Year>> : k \in 1..Len(t.rows)}

HasColumn(t, name) == name \in Range(t.columns)

\* melt of the wide frame of one request: one block of rows per year column,
\* in column order, each block in the frame's row order
MeltRows(code, name, order, coverage, years) ==
    LET listed == SelectSeq(order, LAMBDA e : e \in coverage)
        block(y) == [k \in 1..Len(listed) |->
                        [economy |-> listed[k],
                         Country |-> Val(ApiLabel(listed[k])),
                         Year    |-> y,
                         vals    |-> (name :> ApiValue(code, listed[k], y))]]
    IN Flatten([k \in 1..Len(years) |-> block(years[k])])

Melt(code, name, order, coverage, years) ==
    [columns |-> <<name>>, rows |-> MeltRows(code, name, order, coverage, years)]

KeyLess(a, b) ==
    \/ CodeRank(a[1]) < CodeRank(b[1])
    \/ a[1] = b[1] /\ a[2] < b[2]

RECURSIVE SortKeys(_)
SortKeys(S) ==
    IF S = {} THEN <<>>
    ELSE LET m == CHOOSE a \in S : \A b \in S \ {a} : KeyLess(a, b)
         IN <<m>> \o SortKeys(S \ {m})

RowAt(t, key) ==
    LET k == CHOOSE k \in 1..Len(t.rows) :
                 /\ <<t.rows[k].economy, t.rows[k].Year>> = key
                 /\ \A j \in 1..(k - 1) : <<t.rows[j].economy, t.rows[j].Year>> # key
    IN t.rows[k]

OuterRow(left, right, name, key) ==
    LET inL == key \in Keys(left)
        inR == key \in Keys(right)
    IN [economy |-> key[1],
        Year    |-> key[2],
        Country |-> IF inL THEN RowAt(left, key).Country ELSE NaN,
        vals    |-> [c \in Range(left.columns) \cup {name} |->
                        IF c = name
                        THEN (IF inR THEN RowAt(right, key).vals[name] ELSE NaN)
                        ELSE (IF inL THEN RowAt(left, key).vals[c] ELSE NaN)]]

Merge_Left(left, right, name) ==
    LET keys == SortKeys(Keys(left))
    IN [columns |-> Append(left.columns, name),
        rows    |-> [k \in 1..Len(keys) |-> OuterRow(left, right, name, keys[k])]]

\* pd.merge(left, right[['economy','Year',name]], on=['economy','Year'],
\* how='outer'): the union of the keys, sorted lexicographically
Merge(left, right, name) ==
    LET keys == SortKeys(Keys(left) \cup Keys(right))
    IN [columns |-> Append(left.columns, name),
        rows    |-> [k \in 1..Len(keys) |-> OuterRow(left, right, name, keys[k])]]

Accumulate(frames, frame, name) ==
    IF frames = <<>> THEN <<frame>> ELSE <<Merge(frames[1], frame, name)>>

YearlyFrames_StopAtFirstFailure(ind, order, resp, years) ==
    LET ok == SelectSeq(years, LAMBDA y : \A z \in Range(years) : z <= y => resp.years[z] = "ok")
    IN [k \in 1..Len(ok) |->
            Melt(ind.code, ind.name, order, resp.coverage, <<ok[k]>>)]

\* the frames of the per-year requests that succeeded with an 'economy'
\* column, in year order; a request that raises is passed over
YearlyFrames(ind, order, resp, years) ==
    LET ok == SelectSeq(years, LAMBDA y : resp.years[y] = "ok")
    IN [k \in 1..Len(ok) |->
            Melt(ind.code, ind.name, order, resp.coverage, <<ok[k]>>)]

Concat(frames, name) ==
    [columns |-> <<name>>,
     rows    |-> Flatten([k \in 1..Len(frames) |-> frames[k].rows])]

\* one iteration of the loop over indicators.items()
FetchIteration(frames, ind, order, resp, years) ==
    IF resp.batch = "ok"
    THEN Accumulate(frames, Melt(ind.code, ind.name, order, resp.coverage, years), ind.name)
    ELSE IF resp.batch = "noeconomy"
    THEN frames
    ELSE LET yearly_frames == YearlyFrames(ind, order, resp, years)
         IN IF yearly_frames # <<>>
            THEN Accumulate(frames, Concat(yearly_frames, ind.name), ind.name)
            ELSE frames

\* the years the fallback loop issues a request for: the loop has no break
YearsTried(resp, years) == IF resp.batch = "error" THEN Range(years) ELSE {}

\* the batch request, and one request per year tried
RequestsOf(resp, years) == 1 + Cardinality(YearsTried(resp, years))

FetchResult(frames) == IF frames = <<>> THEN EmptyFrame ELSE frames[1]

-----------------------------------------------------------------------------
(* Metadata enrichment, aggregate filter, fill and categorization *)

\* dict lookup of Series.map: a key the dict lacks, or a null key, maps to NaN
MapCell(m, c) == IF ~IsNull(c) /\ Get(c) \in DOMAIN m THEN Val(m[Get(c)]) ELSE NaN

FillNa(c, other) == IF IsNull(c) THEN other ELSE c

EmptyDict == [k \in {} |-> ""]

\* what the metadata requests can return: the economy request raises, or
\* lists the real countries `valid` with or without name/region columns,
\* and then the region request raises or succeeds
MetadataResponses ==
    {[status |-> "error", valid |-> {}, shape |-> "full", regions |-> FALSE]}
    \cup {[status |-> "ok", valid |-> v, shape |-> "full", regions |-> TRUE] :
            v \in SUBSET Economies}
    \cup {[status |-> "ok", valid |-> Economies, shape |-> "full", regions |-> FALSE],
          [status |-> "ok", valid |-> Economies, shape |-> "bare", regions |-> TRUE]}

LoadMeta_ExceptKeepsNothing(table, resp) ==
    [failed                 |-> resp.status # "ok",
     valid_economies        |-> IF resp.status = "ok" THEN resp.valid ELSE {},
     country_to_region_code |-> IF resp.status = "ok" /\ resp.shape = "full"
                                THEN [e \in resp.valid |-> ApiRegionCode(e)]
                                ELSE EmptyDict,
     region_code_to_name    |-> IF resp.status = "ok" /\ resp.regions
                                THEN [r \in {"ECS", "NAC", "LCN"} |-> ApiRegionName(r)]
                                ELSE EmptyDict,
     country_to_name        |-> IF resp.status = "ok" /\ resp.shape = "full"
                                THEN [e \in resp.valid |-> ApiLabel(e)]
                                ELSE EmptyDict]

\* the try/except that builds valid_economies and the lookup dicts
LoadMeta(table, resp) ==
    IF resp.status = "ok"
    THEN [failed                 |-> FALSE,
          valid_economies        |-> resp.valid,
          country_to_region_code |-> IF resp.shape = "full"
                                     THEN [e \in resp.valid |-> ApiRegionCode(e)]
                                     ELSE EmptyDict,
          region_code_to_name    |-> IF resp.regions
                                     THEN [r \in {"ECS", "NAC", "LCN"} |-> ApiRegionName(r)]
                                     ELSE EmptyDict,
          country_to_name        |-> IF resp.shape = "full"
                                     THEN [e \in resp.valid |-> ApiLabel(e)]
                                     ELSE EmptyDict]
    ELSE [failed                 |-> TRUE,
          valid_economies        |-> {table.rows[k].economy : k \in 1..Len(table.rows)},
          country_to_region_code |-> EmptyDict,
          region_code_to_name    |-> EmptyDict,
          country_to_name        |-> EmptyDict]

NoMeta == [failed |-> FALSE, valid_economies |-> {}, country_to_region_code |-> EmptyDict,
           region_code_to_name |-> EmptyDict, country_to_name |-> EmptyDict]

EnrichRow(r, m) ==
    LET code == MapCell(m.country_to_region_code, Val(r.economy))
    IN [economy     |-> r.economy,
        Year        |-> r.Year,
        Country     |-> r.Country,
        vals        |-> r.vals,
        iso_alpha   |-> r.economy,
        Region_Code |-> code,
        Region      |-> FillNa(MapCell(m.region_code_to_name, code), code),
        CountryName |-> FillNa(MapCell(m.country_to_name, Val(r.economy)), Val(r.economy))]

Enrich(table, m) ==
    [columns |-> table.columns,
     rows    |-> [k \in 1..Len(table.rows) |-> EnrichRow(table.rows[k], m)]]

IsIn(table, valid) ==
    [columns |-> table.columns,
     rows    |-> SelectSeq(table.rows, LAMBDA r : r.economy \in valid)]

AggregateFilter_NoFallback(table, valid) == IsIn(table, valid)

\* df[df['economy'].isin(valid_economies)], or df itself when that is empty
AggregateFilter(table, valid) ==
    IF IsEmpty(IsIn(table, valid)) THEN table ELSE IsIn(table, valid)

FFill(s) ==
    LET f[k \in 0..Len(s)] ==
            IF k = 0 THEN NaN ELSE IF ~IsNull(s[k]) THEN s[k] ELSE f[k - 1]
    IN [k \in 1..Len(s) |-> f[k]]

BFill(s) ==
    LET g[k \in 1..(Len(s) + 1)] ==
            IF k = Len(s) + 1 THEN NaN ELSE IF ~IsNull(s[k]) THEN s[k] ELSE g[k + 1]
    IN [k \in 1..Len(s) |-> g[k]]

FillColumn(s) == BFill(FFill(s))

\* fillna(method='ffill').fillna(method='bfill'): every column on its own,
\* along the row order of the whole table
FillTable(table) ==
    LET n == Len(table.rows)
        col(field) == FillColumn([k \in 1..n |-> table.rows[k][field]])
        val(c) == FillColumn([k \in 1..n |-> table.rows[k].vals[c]])
    IN [columns |-> table.columns,
        rows    |-> [k \in 1..n |->
                        [economy     |-> table.rows[k].economy,
                         Year        |-> table.rows[k].Year,
                         Country     |-> col("Country")[k],
                         vals        |-> [c \in Range(table.columns) |-> val(c)[k]],
                         iso_alpha   |-> table.rows[k].iso_alpha,
                         Region_Code |-> col("Region_Code")[k],
                         Region      |-> col("Region")[k],
                         CountryName |-> col("CountryName")[k]]]]

Bins == <<0, 1000, 5000, 15000, 50000>>

Labels == <<"Low Income", "Lower Middle", "Upper Middle", "High Income", "Very High Income">>

\* pd.cut(bins=[0, 1000, 5000, 15000, 50000, inf], labels=...), right=True:
\* bin k is (Bins[k], Bins[k+1]], the last one (50000, inf]
Cut(c) ==
    IF IsNull(c) THEN NaN
    ELSE LET v == Get(c)
             hit == {k \in 1..Len(Bins) :
                        /\ Bins[k] < v
                        /\ (k < Len(Bins) => v <= Bins[k + 1])}
         IN IF hit = {} THEN NaN ELSE Val(Labels[CHOOSE k \in hit : TRUE])

Categorize(table) ==
    [columns |-> table.columns,
     rows    |-> [k \in 1..Len(table.rows) |->
                    [economy     |-> table.rows[k].economy,
                     Year        |-> table.rows[k].Year,
                     Country     |-> table.rows[k].Country,
                     vals        |-> table.rows[k].vals,
                     iso_alpha   |-> table.rows[k].iso_alpha,
                     Region_Code |-> table.rows[k].Region_Code,
                     Region      |-> table.rows[k].Region,
                     CountryName |-> table.rows[k].CountryName,
                     GDPCategory |-> Cut(table.rows[k].vals["GDP per Capita"])]]]

-----------------------------------------------------------------------------
(* update_dashboard: the data of the time-trend chart *)

\* number of rows that DataFrame.nlargest ranks before row k: larger values
\* first, equal values in row order (keep='first'), null values last
RankBefore(rows, name, k) ==
    Cardinality({j \in 1..Len(rows) :
        LET a == rows[j].vals[name]
            b == rows[k].vals[name]
        IN IF IsNull(b)
           THEN ~IsNull(a) \/ j < k
           ELSE ~IsNull(a) /\ (Get(a) > Get(b) \/ (Get(a) = Get(b) /\ j < k))})

NLargest_Head(n, rows, name) ==
    SelectSeq([k \in 1..Len(rows) |-> [pos |-> k, row |-> rows[k]]],
              LAMBDA x : x.pos <= n)

NLargest(n, rows, name) ==
    SelectSeq([k \in 1..Len(rows) |-> [pos |-> k, row |-> rows[k]]],
              LAMBDA x : RankBefore(rows, name, x.pos) < n)

\* sort_values('Year'), rows of one year kept in table order
SortByYear(rows) ==
    LET years == {rows[k].Year : k \in 1..Len(rows)}
        lo == CHOOSE y \in years : \A z \in years : y <= z
        hi == CHOOSE y \in years : \A z \in years : z <= y
    IN IF rows = <<>> THEN <<>>
       ELSE Flatten([j \in 1..(hi - lo + 1) |->
                        SelectSeq(rows, LAMBDA r : r.Year = lo + j - 1)])

DfYear(table, selected_year, selected_country) ==
    LET of_year == SelectSeq(table.rows, LAMBDA r : r.Year = selected_year)
    IN IF ~IsNull(selected_country)
       THEN SelectSeq(of_year, LAMBDA r : r.CountryName = selected_country)
       ELSE of_year

TopCountries(table, name, selected_year, selected_country) ==
    LET top == NLargest(TopN, DfYear(table, selected_year, selected_country), name)
    IN {top[k].row.economy : k \in 1..Len(top)}

TimeSeriesData(table, selected_indicator, selected_year, selected_country) ==
    LET indicator_name == IndicatorName(selected_indicator)
        top_countries == TopCountries(table, indicator_name, selected_year,
                                      selected_country)
    IN IF ~IsNull(selected_country)
       THEN SortByYear(SelectSeq(table.rows, LAMBDA r :
                /\ r.CountryName = selected_country
                /\ ~IsNull(r.vals[indicator_name])))
       ELSE SortByYear(SelectSeq(table.rows, LAMBDA r : r.economy \in top_countries))

\* the columns of df_year that px.choropleth (color, hover_data) and the
\* bubble chart's dropna(subset=...) look up; a missing one raises
ChartColumns(indicator_name) ==
    {indicator_name, "GDP per Capita", "Population", "Life Expectancy"}

NoSelection ==
    [called |-> FALSE, raised |-> FALSE, indicator |-> "", year |-> 0, country |-> NaN]

-----------------------------------------------------------------------------
(* The start-up script *)

Indicators == SubSeq(INDICATORS, 1, NumIndicators)

EndYear == StartYear + NumYears - 1

AllOk(c, sy, ey) == [batch |-> "ok", coverage |-> c, years |-> [y \in sy..ey |-> "unused"]]

RECURSIVE FetchAll(_, _, _, _, _)
FetchAll(frames, inds, order, resp, years) ==
    IF inds = <<>> THEN frames
    ELSE FetchAll(FetchIteration(frames, Head(inds), order, resp, years),
                  Tail(inds), order, resp, years)

\* what CACHE_FILE can hold: a header without rows, or the table an earlier
\* run fetched and saved
CacheTables(inds, order, sy, ey) ==
    {[columns |-> [k \in 1..Len(inds) |-> inds[k].name], rows |-> <<>>]}
    \cup {FetchResult(FetchAll(<<>>, inds, order, AllOk(c, sy, ey), YearSeq(sy, ey))) :
            c \in Coverages \ {{}}}

\* the observations a loop iteration received in frames it accepted
Received(ind, resp, sy, ey) ==
    {[name |-> ind.name, economy |-> e, Year |-> y, value |-> ApiValue(ind.code, e, y)] :
        e \in resp.coverage,
        y \in {z \in sy..ey : resp.batch = "ok" \/ (resp.batch = "error" /\ resp.years[z] = "ok")}}

InitWith(inds, sy, ey, orders) ==
    /\ pc = "start"
    /\ indicators = inds
    /\ start_year = sy
    /\ end_year = ey
    /\ apiOrder \in orders
    /\ cacheExists \in BOOLEAN
    /\ cacheFile \in (IF cacheExists THEN CacheTables(inds, apiOrder, sy, ey) ELSE {EmptyFrame})
    /\ cacheWrites = 0
    /\ nRequests = 0
    /\ data_frames = <<>>
    /\ idx = 1
    /\ last = NoResponse
    /\ received = {}
    /\ df = EmptyFrame
    /\ meta = NoMeta
    /\ df_countries = EmptyFrame
    /\ stdout = <<>>
    /\ exitStatus = {}
    /\ selection = NoSelection
    /\ df_top10 = <<>>

\* the API lists economies sorted by code
SortedOrder == <<"FRA", "USA">>

Init == InitWith(Indicators, StartYear, EndYear, {SortedOrder})

\* if os.path.exists(CACHE_FILE): df = pd.read_csv(CACHE_FILE)
LoadCache ==
    /\ pc = "start"
    /\ cacheExists
    /\ df' = cacheFile
    /\ stdout' = Append(stdout, "Loading data from cache")
    /\ pc' = "loaded"
    /\ UNCHANGED <<indicators, start_year, end_year, apiOrder, cacheExists, cacheFile,
                   cacheWrites, nRequests, data_frames, idx, last, received, meta, df_countries,
                   exitStatus, selection, df_top10>>

\* else: df = fetch_world_bank_data(INDICATORS, ...): entry of the function
CallFetch ==
    /\ pc = "start"
    /\ ~cacheExists
    /\ data_frames' = <<>>
    /\ idx' = 1
    /\ pc' = "fetching"
    /\ UNCHANGED <<indicators, start_year, end_year, apiOrder, cacheExists, cacheFile,
                   cacheWrites, nRequests, last, received, df, meta, df_countries, stdout,
                   exitStatus, selection, df_top10>>

\* one iteration of `for code, name in indicators.items()`
FetchIndicator ==
    /\ pc = "fetching"
    /\ idx <= Len(indicators)
    /\ \E resp \in Responses(start_year, end_year) :
        /\ data_frames' = FetchIteration(data_frames, indicators[idx], apiOrder, resp,
                                         YearSeq(start_year, end_year))
        /\ nRequests' = nRequests + RequestsOf(resp, YearSeq(start_year, end_year))
        /\ last' = [batch |-> resp.batch, coverage |-> resp.coverage,
                     years |-> resp.years,
                     tried |-> YearsTried(resp, YearSeq(start_year, end_year))]
        /\ received' = received \cup Received(indicators[idx], resp, start_year, end_year)
    /\ idx' = idx + 1
    /\ UNCHANGED <<pc, indicators, start_year, end_year, apiOrder, cacheExists, cacheFile,
                   cacheWrites, df, meta, df_countries, stdout, exitStatus, selection,
                   df_top10>>

ShouldSave_Always(table) == TRUE

\* if not df.empty
ShouldSave(table) == ~IsEmpty(table)

\* the function returns; if not df.empty: df.to_csv(CACHE_FILE)
FetchReturn ==
    /\ pc = "fetching"
    /\ idx > Len(indicators)
    /\ df' = FetchResult(data_frames)
    /\ IF ShouldSave(df')
       THEN /\ cacheExists' = TRUE
            /\ cacheFile' = df'
            /\ cacheWrites' = cacheWrites + 1
            /\ stdout' = Append(stdout, "Saving data to cache")
       ELSE UNCHANGED <<cacheExists, cacheFile, cacheWrites, stdout>>
    /\ data_frames' = <<>>
    /\ last' = NoResponse
    /\ pc' = "loaded"
    /\ UNCHANGED <<indicators, start_year, end_year, apiOrder, nRequests, idx, received, meta,
                   df_countries, exitStatus, selection, df_top10>>

CheckEmpty_NoExit ==
    /\ pc = "loaded"
    /\ stdout' = IF IsEmpty(df) THEN Append(stdout, "Failed to fetch data") ELSE stdout
    /\ pc' = "metadata"
    /\ UNCHANGED <<indicators, start_year, end_year, apiOrder, cacheExists, cacheFile,
                   cacheWrites, nRequests, data_frames, idx, last, received, df, meta,
                   df_countries, exitStatus, selection, df_top10>>

\* if df.empty: print(...); exit(1)
CheckEmpty ==
    /\ pc = "loaded"
    /\ IF IsEmpty(df)
       THEN /\ stdout' = Append(stdout, "Failed to fetch data")
            /\ exitStatus' = Val(1)
            /\ pc' = "exited"
       ELSE /\ pc' = "metadata"
            /\ UNCHANGED <<stdout, exitStatus>>
    /\ UNCHANGED <<indicators, start_year, end_year, apiOrder, cacheExists, cacheFile,
                   cacheWrites, nRequests, data_frames, idx, last, received, df, meta,
                   df_countries, selection, df_top10>>

\* the metadata try/except
LoadMetadata ==
    /\ pc = "metadata"
    /\ \E resp \in MetadataResponses : meta' = LoadMeta(df, resp)
    /\ pc' = "enrich"
    /\ UNCHANGED <<indicators, start_year, end_year, apiOrder, cacheExists, cacheFile,
                   cacheWrites, nRequests, data_frames, idx, last, received, df,
                   df_countries, stdout, exitStatus, selection, df_top10>>

\* the iso_alpha, Region_Code, Region and Country Name columns
EnrichTable ==
    /\ pc = "enrich"
    /\ df' = Enrich(df, meta)
    /\ pc' = "filter"
    /\ UNCHANGED <<indicators, start_year, end_year, apiOrder, cacheExists, cacheFile,
                   cacheWrites, nRequests, data_frames, idx, last, received, meta, df_countries,
                   stdout, exitStatus, selection, df_top10>>

\* df_countries: the aggregate filter and its fallback
FilterAggregates ==
    /\ pc = "filter"
    /\ df_countries' = AggregateFilter(df, meta.valid_economies)
    /\ stdout' = IF IsEmpty(IsIn(df, meta.valid_economies))
                 THEN Append(stdout, "Warning: No valid country data found")
                 ELSE stdout
    /\ pc' = "fill"
    /\ UNCHANGED <<indicators, start_year, end_year, apiOrder, cacheExists, cacheFile,
                   cacheWrites, nRequests, data_frames, idx, last, received, df, meta,
                   exitStatus, selection, df_top10>>

\* fillna ffill/bfill, then the GDP Category column; df_countries
\* ['GDP per Capita'] raises KeyError when that indicator was skipped
FillAndCategorize ==
    /\ pc = "fill"
    /\ IF HasColumn(df_countries, "GDP per Capita")
       THEN /\ df_countries' = Categorize(FillTable(df_countries))
            /\ pc' = "ready"
            /\ UNCHANGED exitStatus
       ELSE /\ df_countries' = FillTable(df_countries)
            /\ pc' = "crashed"
            /\ exitStatus' = Val(1)
    /\ UNCHANGED <<indicators, start_year, end_year, apiOrder, cacheExists, cacheFile,
                   cacheWrites, nRequests, data_frames, idx, last, received, df, meta, stdout,
                   selection, df_top10>>

\* app = dash.Dash(...), the layout, and under __main__ app.run()
StartServer ==
    /\ pc = "ready"
    /\ stdout' = Append(stdout, "Starting dashboard server...")
    /\ pc' = "serving"
    /\ UNCHANGED <<indicators, start_year, end_year, apiOrder, cacheExists, cacheFile,
                   cacheWrites, nRequests, data_frames, idx, last, received, df, meta,
                   df_countries, exitStatus, selection, df_top10>>

Next ==
    \/ LoadCache
    \/ CallFetch
    \/ FetchIndicator
    \/ FetchReturn
    \/ CheckEmpty
    \/ LoadMetadata
    \/ EnrichTable
    \/ FilterAggregates
    \/ FillAndCategorize
    \/ StartServer

Spec == Init /\ [][Next]_vars

-----------------------------------------------------------------------------
(* The end-to-end scenario: one indicator, 2010-2012 *)

InitScenario == InitWith(<<INDICATORS[1]>>, 2010, 2012, EconomyOrders)

SpecScenario == InitScenario /\ [][Next]_vars

-----------------------------------------------------------------------------
(* The fill and categorization step on its own: the table comes from a     *)
(* cache file, whose 'GDP per Capita' column can hold anything             *)

GdpCells == {NaN, Val(0), Val(999), Val(1000), Val(5000), Val(15000), Val(50000), Val(50001)}

ColumnTable(cells) ==
    [columns |-> <<"GDP per Capita">>,
     rows    |-> [k \in 1..Len(cells) |->
                    [economy |-> "USA",
                     Country |-> Val(ApiLabel("USA")),
                     Year    |-> StartYear + k - 1,
                     vals    |-> ("GDP per Capita" :> cells[k])]]]

MetadataError == [status |-> "error", valid |-> {}, shape |-> "full", regions |-> FALSE]

\* the state in which the script reaches the fill step after loading
\* `table` from the cache with the metadata request `resp`
AtFill(table, resp) ==
    /\ pc = "fill"
    /\ indicators = Indicators
    /\ start_year = StartYear
    /\ end_year = EndYear
    /\ apiOrder = SortedOrder
    /\ cacheExists = TRUE
    /\ cacheFile = table
    /\ cacheWrites = 0
    /\ nRequests = 0
    /\ data_frames = <<>>
    /\ idx = 1
    /\ last = NoResponse
    /\ received = {}
    /\ meta = LoadMeta(table, resp)
    /\ df = Enrich(table, meta)
    /\ df_countries = AggregateFilter(df, meta.valid_economies)
    /\ stdout = <<"Loading data from cache">>
    /\ exitStatus = {}
    /\ selection = NoSelection
    /\ df_top10 = <<>>

InitCat ==
    \E n \in 1..MaxColumnLen : \E cells \in [1..n -> GdpCells] :
        AtFill(ColumnTable(cells), MetadataError)

-----------------------------------------------------------------------------
(* The running dashboard: update_dashboard on a table of many economies *)

DashEconomies ==
    <<"ARG", "BRA", "CAN", "DEU", "EGY", "FRA", "GBR", "IND", "JPN", "KEN", "MEX",
      "NGA", "USA", "ZAF">>

DashValues == {500, 1000, 2000}

\* first-year 'GDP per Capita' of n economies: 1000 everywhere except at
\* positions a and b
DashColumns(n) ==
    {[k \in 1..n |-> IF k = a THEN va ELSE IF k = b THEN vb ELSE 1000] :
        a \in 1..n, b \in 1..n, va \in DashValues, vb \in DashValues}

DashYears == YearSeq(StartYear, StartYear + 1)

\* economy-major table of the first Len(gdp) economies: gdp[k] is economy
\* k's 'GDP per Capita' in the first year
DashTable(gdp) ==
    [columns |-> <<"GDP per Capita", "Population", "Life Expectancy">>,
     rows    |-> Flatten([k \in 1..Len(gdp) |->
                    [j \in 1..Len(DashYears) |->
                        [economy |-> DashEconomies[k],
                         Country |-> Val(ApiLabel(DashEconomies[k])),
                         Year    |-> DashYears[j],
                         vals    |-> ("GDP per Capita" :>
                                        (IF j = 1 THEN Val(gdp[k]) ELSE Val(3000)))
                                     @@ ("Population" :>
                                        ApiValue("SP.POP.TOTL", DashEconomies[k],
                                                 DashYears[j]))
                                     @@ ("Life Expectancy" :>
                                        ApiValue("SP.DYN.LE00.IN", DashEconomies[k],
                                                 DashYears[j]))]]])]

DashMetadata(gdp) ==
    [status |-> "ok", valid |-> {DashEconomies[k] : k \in 1..Len(gdp)},
     shape |-> "full", regions |-> TRUE]

InitDash ==
    \E n \in 1..NumDashEconomies : \E gdp \in DashColumns(n) :
        AtFill(DashTable(gdp), DashMetadata(gdp))

FirstName(table) == table.rows[1].CountryName

LastName(table) == table.rows[Len(table.rows)].CountryName

YearsOf(table) == {table.rows[k].Year : k \in 1..Len(table.rows)}

\* the callback, for one change of the three controls: the map is built
\* first and the bubble chart after the time trend, so when a column either
\* of them reads is missing the callback raises and returns no figure
UpdateDashboard ==
    /\ pc = "serving"
    /\ \E selected_indicator \in {INDICATORS[k].code : k \in 1..Len(INDICATORS)},
          selected_year \in YearsOf(df_countries),
          selected_country \in {NaN, FirstName(df_countries), LastName(df_countries)} :
        LET raises == \E c \in ChartColumns(IndicatorName(selected_indicator)) :
                        ~HasColumn(df_countries, c)
        IN /\ selection' = [called |-> TRUE, raised |-> raises,
                            indicator |-> selected_indicator,
                            year |-> selected_year, country |-> selected_country]
           /\ df_top10' = IF raises
                          THEN <<>>
                          ELSE TimeSeriesData(df_countries, selected_indicator,
                                              selected_year, selected_country)
    /\ UNCHANGED <<pc, indicators, start_year, end_year, apiOrder, cacheExists, cacheFile,
                   cacheWrites, nRequests, data_frames, idx, last, received, df, meta,
                   df_countries, stdout, exitStatus>>

NextServe == FillAndCategorize \/ StartServer \/ UpdateDashboard

SpecDash == InitDash /\ [][NextServe]_vars

SpecCat == InitCat /\ [][NextServe]_vars

-----------------------------------------------------------------------------
(* Properties *)

Rows(t) == Range(t.rows)

Categorized == pc \in {"ready", "serving"}

\* the label the half-open bins [0,1000), [1000,5000), [5000,15000),
\* [15000,50000), [50000,inf) give a cell
HalfOpenLabel(c) ==
    IF IsNull(c) THEN NaN
    ELSE LET v == Get(c)
         IN IF v < 0 THEN NaN
            ELSE IF v < 1000 THEN Val("Low Income")
            ELSE IF v < 5000 THEN Val("Lower Middle")
            ELSE IF v < 15000 THEN Val("Upper Middle")
            ELSE IF v < 50000 THEN Val("High Income")
            ELSE Val("Very High Income")

\* C1: every row's 'GDP Category' is the label of the half-open bin
\* [lower, upper) that holds its 'GDP per Capita': a value on a breakpoint
\* gets the higher bin (1000 -> 'Lower Middle', 50000 -> 'Very High
\* Income', 0 -> 'Low Income'), and a null value gets a null label.
C1_BreakpointInHigherBin ==
    Categorized =>
        \A r \in Rows(df_countries) :
            r.GDPCategory = HalfOpenLabel(r.vals["GDP per Capita"])

\* C6: once the non-empty table is filled and categorized, every row has
\* a non-null 'GDP Category', whatever the fetched 'GDP per Capita' column
\* held (missing values, and non-negative values such as 0).
C6_CategoryAlwaysDefined ==
    (Categorized /\ ~IsEmpty(df_countries)) =>
        \A r \in Rows(df_countries) : ~IsNull(r.GDPCategory)

-----------------------------------------------------------------------------

CacheHit == stdout # <<>> /\ stdout[1] = "Loading data from cache"

FetchDone == pc \notin {"start", "fetching"} /\ ~CacheHit

\* C2: with a cache file at start the table is the file's, no indicator
\* request is ever issued and the file is never rewritten; without one the
\* fetcher runs over every indicator, and the file is written (once, with
\* the fetched table) exactly when the fetched table is non-empty.
C2_CacheOrFetch ==
    /\ CacheHit =>
        /\ nRequests = 0
        /\ idx = 1
        /\ cacheWrites = 0
        /\ cacheExists
        /\ pc = "loaded" => df = cacheFile
    /\ FetchDone =>
        /\ idx = Len(indicators) + 1
        /\ nRequests >= Len(indicators)
        /\ cacheWrites = (IF IsEmpty(df) THEN 0 ELSE 1)
        /\ cacheExists = ~IsEmpty(df)
        /\ pc = "loaded" /\ ~IsEmpty(df) => cacheFile = df
    /\ pc \in {"start", "fetching"} => cacheWrites = 0

C2_EmptyFetchWritesNothing ==
    /\ pc = "exited"
    /\ nRequests > 0
    /\ ~cacheExists
    /\ cacheWrites = 0

\* C3: an empty start-up table ends the process with status 1 right after
\* the diagnostic, before any metadata enrichment and without the server;
\* the server only ever starts on a non-empty table.
C3_EmptyTableExits ==
    /\ (pc \notin {"start", "fetching"} /\ IsEmpty(df)) =>
        /\ pc \in {"loaded", "exited"}
        /\ meta = NoMeta
        /\ df_countries = EmptyFrame
        /\ ~ENABLED LoadMetadata
    /\ pc = "exited" =>
        /\ IsEmpty(df)
        /\ exitStatus = Val(1)
        /\ stdout[Len(stdout)] = "Failed to fetch data"
        /\ ~ENABLED Next
    /\ pc = "serving" =>
        /\ ~IsEmpty(df)
        /\ ~IsEmpty(df_countries)
        /\ exitStatus = {}
    /\ (\E k \in 1..Len(stdout) : stdout[k] = "Starting dashboard server...") =>
        (pc = "serving" /\ ~IsEmpty(df_countries))

C3_ExitedOnEmptyCache ==
    /\ pc = "exited"
    /\ CacheHit
    /\ exitStatus = Val(1)

-----------------------------------------------------------------------------

HasObservation(t, name, e, y, value) ==
    /\ HasColumn(t, name)
    /\ \E r \in Rows(t) : r.economy = e /\ r.Year = y /\ r.vals[name] = value

\* C4: when the batch request of an indicator raises, a request is tried
\* for every year of the range; the rows of each year whose request
\* succeeded are in the accumulated table under that indicator, whichever
\* other years failed; the indicator's column is missing only when no year
\* succeeded; and the loop goes on to the remaining indicators.
C4_FallbackYearsIndependent ==
    (pc = "fetching" /\ last.batch = "error") =>
        LET ind == indicators[idx - 1]
            t   == FetchResult(data_frames)
            ok  == {y \in start_year..end_year : last.years[y] = "ok"}
        IN /\ last.tried = start_year..end_year
           /\ \A y \in ok : \A e \in last.coverage :
                HasObservation(t, ind.name, e, y, ApiValue(ind.code, e, y))
           /\ (ok = {}) = ~HasColumn(t, ind.name)
           /\ idx <= Len(indicators) => ENABLED FetchIndicator
           /\ idx > Len(indicators) => ENABLED FetchReturn

C4_PartialFallback ==
    /\ pc = "fetching"
    /\ last.batch = "error"
    /\ last.coverage = Economies
    /\ \E y \in start_year..end_year : last.years[y] = "ok"
    /\ \E y \in start_year..end_year : last.years[y] = "error"
    /\ idx > 2

Observed(name, e, y) ==
    \E o \in received : o.name = name /\ o.economy = e /\ o.Year = y

\* the table `t` holds every observation received so far, and a cell of an
\* indicator that has no observation for the row's (economy, year) is null
HoldsReceived(t) ==
    /\ \A o \in received : HasObservation(t, o.name, o.economy, o.Year, o.value)
    /\ \A r \in Rows(t) : \A c \in Range(t.columns) :
            ~Observed(c, r.economy, r.Year) => IsNull(r.vals[c])

\* C5: the accumulated table, and the table the function returns, hold every
\* (economy, year) pair of every indicator frame the loop accepted, by batch
\* or by fallback, with that indicator's value; where a pair was seen for
\* only some indicators the row is kept and the other indicators are null.
C5_OuterJoinKeepsEveryPair ==
    /\ pc = "fetching" => HoldsReceived(FetchResult(data_frames))
    /\ (pc = "loaded" /\ ~CacheHit) => HoldsReceived(df)

C5_PairOfOneIndicatorOnly ==
    /\ pc = "loaded"
    /\ \E o \in received : \E c \in Range(df.columns) :
            /\ c # o.name
            /\ ~Observed(c, o.economy, o.Year)
            /\ \E q \in received : q.name = c

-----------------------------------------------------------------------------

Enriched == pc \in {"filter", "fill", "ready", "serving", "crashed"}

Filtered == pc \in {"fill", "ready", "serving", "crashed"}

SameKeys(a, b) ==
    /\ Len(a.rows) = Len(b.rows)
    /\ \A k \in 1..Len(a.rows) :
            a.rows[k].economy = b.rows[k].economy /\ a.rows[k].Year = b.rows[k].Year

\* C7: after a failed country-metadata request every row's 'Country Name'
\* is its economy code and its region is null, the filtered table has
\* exactly the rows of the loaded table, and the script goes on to the
\* server (it stops only where 'GDP per Capita' was never fetched).
C7_MetadataFailureFallsBack ==
    meta.failed =>
        /\ pc \notin {"exited", "loaded", "metadata"}
        /\ \A k \in 1..Len(stdout) : stdout[k] # "Warning: No valid country data found"
        /\ Enriched =>
            \A r \in Rows(df) :
                /\ r.CountryName = Val(r.economy)
                /\ IsNull(r.Region)
                /\ IsNull(r.Region_Code)
        /\ Filtered =>
            /\ SameKeys(df_countries, df)
            /\ \A r \in Rows(df_countries) :
                    r.CountryName = Val(r.economy) /\ IsNull(r.Region)
        /\ pc = "crashed" => ~HasColumn(df, "GDP per Capita")
        /\ pc = "fill" /\ HasColumn(df, "GDP per Capita") => ENABLED FillAndCategorize
        /\ pc = "ready" => ENABLED StartServer
        /\ pc # "crashed" => exitStatus = {}

C7_ServingWithoutMetadata ==
    /\ meta.failed
    /\ pc = "serving"
    /\ Cardinality({r.economy : r \in Rows(df_countries)}) > 1

RealCountryRows(t, valid) == SelectSeq(t.rows, LAMBDA r : r.economy \in valid)

\* C10: the table handed to the fill step holds the rows of the enriched
\* table whose economy is a real country, or, when there is no such row,
\* all rows of the enriched table; for a non-empty loaded table it is
\* never empty.
C10_FilterNeverEmpties ==
    /\ pc = "fill" =>
        df_countries.rows =
            (IF RealCountryRows(df, meta.valid_economies) # <<>>
             THEN RealCountryRows(df, meta.valid_economies)
             ELSE df.rows)
    /\ Filtered => ~IsEmpty(df_countries)

C10_FilterSkipped ==
    /\ pc = "fill"
    /\ ~meta.failed
    /\ RealCountryRows(df, meta.valid_economies) = <<>>
    /\ Len(df_countries.rows) > 1

-----------------------------------------------------------------------------

ValueIn(t, name, e, y) ==
    (CHOOSE r \in Rows(t) : r.economy = e /\ r.Year = y).vals[name]

EconomiesIn(t, y) == {r.economy : r \in {q \in Rows(t) : q.Year = y}}

\* C8: whenever the callback returns its figures, with a country selected
\* the chart's data is that country's rows of all years that have a value
\* of the indicator, whatever year is selected;
\* with none selected it is the rows, of all years, of min(10, number of
\* economies) economies, none of which has a smaller value of the indicator
\* in the selected year than an economy left out.
C8_TimeTrendSelection ==
    (pc = "serving" /\ selection.called /\ ~selection.raised) =>
        LET name == IndicatorName(selection.indicator)
            shown == {df_top10[k].economy : k \in 1..Len(df_top10)}
            inYear == EconomiesIn(df_countries, selection.year)
        IN IF ~IsNull(selection.country)
           THEN /\ Range(df_top10) =
                     {r \in Rows(df_countries) :
                        r.CountryName = selection.country /\ ~IsNull(r.vals[name])}
                /\ Len(df_top10) = Cardinality(Range(df_top10))
           ELSE /\ shown \subseteq inYear
                /\ Cardinality(shown) = Min(TopN, Cardinality(inYear))
                /\ \A e \in shown : \A f \in inYear \ shown :
                        Get(ValueIn(df_countries, name, e, selection.year))
                            >= Get(ValueIn(df_countries, name, f, selection.year))
                /\ Range(df_top10) = {r \in Rows(df_countries) : r.economy \in shown}
                /\ Len(df_top10) = Cardinality(Range(df_top10))

C8_MoreThanTenEconomies ==
    /\ pc = "serving"
    /\ selection.called
    /\ ~selection.raised
    /\ IsNull(selection.country)
    /\ Cardinality(EconomiesIn(df_countries, selection.year)) > TopN
    /\ \E e \in EconomiesIn(df_countries, selection.year) :
            /\ e \notin {df_top10[k].economy : k \in 1..Len(df_top10)}
            /\ Get(ValueIn(df_countries, IndicatorName(selection.indicator), e,
                           selection.year)) = 1000

-----------------------------------------------------------------------------

ScenarioValue(e, y) ==
    CASE e = "USA" /\ y = 2010 -> Val(48000)
      [] e = "USA" /\ y = 2011 -> Val(50000)
      [] e = "FRA" /\ y = 2010 -> Val(40000)
      [] OTHER -> NaN

\* the run fetched 'GDP per Capita' alone, for USA and FRA and every year of
\* 2010-2012, with the scenario's values, and both economies are real
\* countries
ScenarioFetched ==
    /\ ~CacheHit
    /\ indicators = <<INDICATORS[1]>>
    /\ received = {[name |-> "GDP per Capita", economy |-> e, Year |-> y,
                    value |-> ScenarioValue(e, y)] :
                        e \in {"USA", "FRA"}, y \in 2010..2012}
    /\ meta.valid_economies = {"USA", "FRA"}

\* C9: in the end-to-end scenario the filled value of FRA:2011 is 40000,
\* FRA's own value of 2010.
C9_FranceFilledFromFrance ==
    (Categorized /\ ScenarioFetched) =>
        \A r \in Rows(df_countries) :
            (r.economy = "FRA" /\ r.Year = 2011) => r.vals["GDP per Capita"] = Val(40000)

====
